---------------------------- MODULE Spec2Model ----------------------------
(***************************************************************************)
(* Channel statistics of multi-channel recordings: plot_hdf5_stats.py      *)
(* (sample_count, spike_count, bit_count, normalize_stats, main) together  *)
(* with the helpers it imports from nevroutil (digitize, split_where and   *)
(* the two range filters), which are modelled from their specification.    *)
(*                                                                         *)
(* Numbers.  Counts are integers.  A float64 value is modelled exactly as  *)
(* a fraction [num, den] in lowest terms with den > 0; den = 0 encodes the *)
(* non-finite values: num = 1 is +inf, num = -1 is -inf, num = 0 is nan.   *)
(* Thresholds mean -/+ 5*std are compared exactly (no rounding).           *)
(***************************************************************************)
EXTENDS Integers, Sequences, FiniteSets, TLC

VARIABLES
    fs,          \* the recording files on disk: path -> what the file holds
    args,        \* the parsed command line of entry point B
    pc,          \* position of main: idle, start, loop, finish, render, done, fault
    channels,    \* the channel set main computed (lines 139-149)
    i,           \* number of files the processing loop has handled
    stats_data,  \* defaultdict(list): statistic name -> collected entries
    labels,      \* plot labels, one per selected statistic
    log,         \* the loads and statistic calls made so far, in order
    fault,       \* the uncaught exception that ended the run, or "none"
    plot,        \* what plot_stats_total was given to draw: <<>> until it runs
    fin,         \* input of a function applied on its own
    fout         \* its result: <<>> until applied, then <<result>>

vars == <<fs, args, pc, channels, i, stats_data, labels, log, fault, plot, fin, fout>>

mainvars == <<fs, args, pc, channels, i, stats_data, labels, log, fault, plot>>

-----------------------------------------------------------------------------
(* Bounds of the model *)

MaxFiles == 2        \* file arguments per run
MaxStats == 2        \* names in the statistics selection
MaxT == 5            \* largest event time of the timestamp streams
MaxSeqLen == 4       \* length of the sequences given to digitize / split_where
MaxSlice == 28       \* length of the perturbed all-zero slice
MaxNormCh == 2       \* columns of the tables given to normalize_stats

(* Program constants *)

NDeviceChannels == 60    \* set(range(60)), the default channel set
K == 5                   \* thresholds are mean -/+ 5 * std

-----------------------------------------------------------------------------
(* Integer helpers *)

Abs(x) == IF x < 0 THEN -x ELSE x

Sign(x) == IF x < 0 THEN -1 ELSE IF x > 0 THEN 1 ELSE 0

RECURSIVE Gcd(_, _)
Gcd(a, b) == IF b = 0 THEN a ELSE Gcd(b, a % b)

\* s[lo] + ... + s[hi], by halving (the recursion stays shallow on long s).
RECURSIVE SumRange(_, _, _)
SumRange(s, lo, hi) ==
    IF lo > hi THEN 0
    ELSE IF lo = hi THEN s[lo]
    ELSE LET mid == (lo + hi) \div 2
         IN  SumRange(s, lo, mid) + SumRange(s, mid + 1, hi)

SumSeq(s) == SumRange(s, 1, Len(s))

SumSq(s) == SumRange([k \in 1..Len(s) |-> s[k] * s[k]], 1, Len(s))

\* The elements of a set of non-negative integers in ascending order.
Ascending(S) ==
    IF S = {} THEN <<>>
    ELSE LET top == CHOOSE x \in S : \A y \in S : y <= x
         IN  SelectSeq([k \in 1..(top + 1) |-> k - 1], LAMBDA x : x \in S)

ToSet(s) == {s[k] : k \in 1..Len(s)}

-----------------------------------------------------------------------------
(* float64 values *)

Quot(n, d) ==
    IF d = 0 THEN [num |-> Sign(n), den |-> 0]
    ELSE LET g == Gcd(Abs(n), Abs(d))
         IN  [num |-> Sign(d) * (n \div g), den |-> Abs(d) \div g]

Fin(n) == [num |-> n, den |-> 1]

NaN == [num |-> 0, den |-> 0]

IsFinite(v) == v.den # 0

IsNaN(v) == v.den = 0 /\ v.num = 0

\* IEEE division a / b as numpy's true_divide computes it: no exception, a
\* zero divisor gives +/-inf, or nan for 0/0.
TrueDivide(a, b) ==
    IF IsNaN(a) \/ IsNaN(b) THEN NaN
    ELSE IF ~IsFinite(b)
         THEN IF IsFinite(a) THEN Fin(0) ELSE NaN
    ELSE IF b.num = 0
         THEN [num |-> Sign(a.num), den |-> 0]
    ELSE IF IsFinite(a)
         THEN Quot(a.num * b.den, a.den * b.num)
    ELSE [num |-> Sign(a.num) * Sign(b.num), den |-> 0]

\* IEEE addition.
AddVal(a, b) ==
    IF IsNaN(a) \/ IsNaN(b) THEN NaN
    ELSE IF IsFinite(a) /\ IsFinite(b)
         THEN Quot(a.num * b.den + b.num * a.den, a.den * b.den)
    ELSE IF IsFinite(a) THEN b
    ELSE IF IsFinite(b) THEN a
    ELSE IF a.num = b.num THEN a ELSE NaN

\* inf = float('inf')
inf == [num |-> 1, den |-> 0]

\* t0 <= t < t1 for an integer time t and float bounds t0 (finite) and t1.
InRange(t, t0, t1) ==
    /\ t0.num <= t * t0.den
    /\ IF IsFinite(t1) THEN t * t1.den < t1.num ELSE t1.num > 0

-----------------------------------------------------------------------------
(* numpy arrays of one or two dimensions: a shape and the elements in      *)
(* row-major order.                                                        *)

Size(shape) == IF Len(shape) = 1 THEN shape[1] ELSE shape[1] * shape[2]

\* np.array(list of F scalars)
Array1(xs) == [shape |-> <<Len(xs)>>, data |-> xs]

RECURSIVE Flatten(_)
Flatten(rows) == IF rows = <<>> THEN <<>> ELSE Head(rows) \o Flatten(Tail(rows))

\* np.array(list of F vectors of length C): a float64 table of shape (F, C)
Array2(rows, C) ==
    [shape |-> <<Len(rows), C>>,
     data  |-> LET flat == Flatten(rows) IN [k \in 1..Len(flat) |-> Fin(flat[k])]]

\* Element (f, c) of a 2-D array, both 1-based.
At(a, f, c) == a.data[(f - 1) * a.shape[2] + c]

\* divisor.reshape((-1, 1))
ReshapeColumn(a) == [shape |-> <<Size(a.shape), 1>>, data |-> a.data]

\* The shape of a 1-D array seen as 2-D by broadcasting: (n,) -> (1, n).
Shape2(a) == IF Len(a.shape) = 1 THEN <<1, a.shape[1]>> ELSE a.shape

BroadcastOk(sa, sb) ==
    \A d \in 1..2 : sa[d] = sb[d] \/ sa[d] = 1 \/ sb[d] = 1

BroadcastDim(x, y) == IF x = 1 THEN y ELSE x

\* What stands for a raised exception (the ValueError numpy raises when two
\* shapes cannot be broadcast together): an array of no dimensions.
Raised == [shape |-> <<>>, data |-> <<>>]

IsError(a) == Len(a.shape) = 0

\* a / b for a 2-D float table a and an integer array b, with numpy's
\* broadcasting.
ArrayDivide(a, b) ==
    LET sa == Shape2(a)
        sb == Shape2(b)
    IN  IF ~BroadcastOk(sa, sb) THEN Raised
        ELSE LET F == BroadcastDim(sa[1], sb[1])
                 C == BroadcastDim(sa[2], sb[2])
                 ea(f, c) == a.data[((IF sa[1] = 1 THEN 1 ELSE f) - 1) * sa[2]
                                    + (IF sa[2] = 1 THEN 1 ELSE c)]
                 eb(f, c) == b.data[((IF sb[1] = 1 THEN 1 ELSE f) - 1) * sb[2]
                                    + (IF sb[2] = 1 THEN 1 ELSE c)]
             IN  [shape |-> <<F, C>>,
                  data  |-> [k \in 1..(F * C) |->
                                LET f == ((k - 1) \div C) + 1
                                    c == ((k - 1) % C) + 1
                                IN  TrueDivide(ea(f, c), Fin(eb(f, c)))]]

normalize_stats_noreshape(table, divisor) == ArrayDivide(table, divisor)

normalize_stats_checked(table, divisor) ==
    IF \E k \in 1..Len(divisor.data) : divisor.data[k] = 0 THEN Raised
    ELSE ArrayDivide(table, ReshapeColumn(divisor))

normalize_stats(table, divisor) ==
    IF Len(table.shape) > Len(divisor.shape)
    THEN ArrayDivide(table, ReshapeColumn(divisor))
    ELSE ArrayDivide(table, divisor)

-----------------------------------------------------------------------------
(* Recordings.  analog is the channel_data buffer: shape (channels,        *)
(* samples) and one row of integer samples per channel 0..channels-1;      *)
(* ts is the timestamp entity: channel -> ordered event times.             *)

Recording(nch, ns, rows, ts) ==
    [analog |-> [shape |-> <<nch, ns>>, row |-> rows], ts |-> ts]

-----------------------------------------------------------------------------
(* nevroutil: digitize, split_where and the range filters *)

\* The contiguous slice of s at the 0-based sample indices k with
\* t0 <= k < t1 (one sample per time unit).
Slice(s, t0, t1) ==
    LET inside == {k \in 1..Len(s) : InRange(k - 1, t0, t1)}
    IN  IF inside = {} THEN <<>>
        ELSE SubSeq(s, CHOOSE k \in inside : \A j \in inside : k <= j,
                       CHOOSE k \in inside : \A j \in inside : j <= k)

get_stream_data_in_range(stream, chs, t0, t1) ==
    [ch \in (chs \cap DOMAIN stream.row) |-> Slice(stream.row[ch], t0, t1)]

EventsIn(s, t0, t1) == SelectSeq(s, LAMBDA t : InRange(t, t0, t1))

get_timestamp_data_in_range(te, chs, t0, t1) ==
    [ch \in (chs \cap DOMAIN te) |-> EventsIn(te[ch], t0, t1)]

\* A real threshold (a + b * sqrt(d)) / n with integers a, b, d >= 0, n > 0;
\* n = 0 is nan (the mean of an empty slice).
Threshold(a, b, d, n) == [a |-> a, b |-> b, d |-> d, n |-> n]

IntThreshold(t) == Threshold(t, 0, 0, 1)

\* L < b * sqrt(d), decided in integers.
LtSurd(L, b, d) ==
    IF b >= 0 THEN L < 0 \/ L * L < b * b * d
    ELSE L < 0 /\ L * L > b * b * d

Below(v, th) == th.n # 0 /\ LtSurd(th.n * v - th.a, th.b, th.d)

Above(v, th) == th.n # 0 /\ LtSurd(th.a - th.n * v, -th.b, th.d)

digitize_closed(values, low, high) ==
    [k \in 1..Len(values) |->
        IF ~Above(values[k], low) THEN "LOW"
        ELSE IF ~Below(values[k], high) THEN "HIGH"
        ELSE "MID"]

digitize(values, low, high) ==
    [k \in 1..Len(values) |->
        IF Below(values[k], low) THEN "LOW"
        ELSE IF Above(values[k], high) THEN "HIGH"
        ELSE "MID"]

\* The 0-based indices p in first..len(s)-1 with s[p] # s[p-1].
BoundariesFrom(s, first) ==
    SelectSeq([k \in 1..(Len(s) - first) |-> k + first - 1],
              LAMBDA p : s[p + 1] # s[p])

split_where(s) == BoundariesFrom(s, 1)

-----------------------------------------------------------------------------
(* plot_hdf5_stats: the statistic functions *)

stats_available == {"sample_count", "spike_count", "bit_count", "mean", "std"}

\* for i, ch in enumerate(channels): the iteration order of a set of small
\* non-negative integers.  An int hashes to itself, so in a table with more
\* slots than the largest member the members sit in ascending slots.
Enumerate(chs) == Ascending(chs)

sample_count(raw_data) == raw_data.analog.shape[2]

spike_count_len(raw_data, chs, t0, t1) ==
    LET order == Enumerate(chs)
    IN  [k \in 1..Len(order) |->
            IF order[k] \in DOMAIN raw_data.ts THEN Len(raw_data.ts[order[k]]) ELSE 0]

spike_count(raw_data, chs, t0, t1) ==
    LET timestamps == get_timestamp_data_in_range(raw_data.ts, chs, t0, t1)
        order == Enumerate(chs)
    IN  [k \in 1..Len(order) |->
            IF order[k] \in DOMAIN timestamps THEN Len(timestamps[order[k]]) ELSE 0]

\* np.mean(data) = a / n and np.std(data) = sqrt(d) / n (population std)
Mean(data) == [a |-> SumSeq(data), n |-> Len(data)]

Std(data) ==
    [d |-> Len(data) * SumSq(data) - SumSeq(data) * SumSeq(data), n |-> Len(data)]

bit_count_runs(data) ==
    LET mean == Mean(data)
        std == Std(data)
        th_lo == Threshold(mean.a, -K, std.d, mean.n)
        th_hi == Threshold(mean.a, K, std.d, mean.n)
        bits == digitize(data, th_lo, th_hi)
        idx == split_where(bits)
    IN  Len(idx) + 1

bit_count_samples(data) ==
    LET mean == Mean(data)
        std == Std(data)
        th_lo == Threshold(mean.a, -K, std.d, mean.n)
        th_hi == Threshold(mean.a, K, std.d, mean.n)
        bits == digitize(data, th_lo, th_hi)
    IN  Len(SelectSeq(bits, LAMBDA b : b # "MID"))

bit_count_channel_1std(data) ==
    LET mean == Mean(data)
        std == Std(data)
        th_lo == Threshold(mean.a, -1, std.d, mean.n)
        th_hi == Threshold(mean.a, 1, std.d, mean.n)
        bits == digitize(data, th_lo, th_hi)
        idx == split_where(bits)
    IN  Len(idx)

\* Lines 79-88: the count recorded for one channel's slice.
bit_count_channel(data) ==
    LET mean == Mean(data)
        std == Std(data)
        th_lo == Threshold(mean.a, -K, std.d, mean.n)
        th_hi == Threshold(mean.a, K, std.d, mean.n)
        bits == digitize(data, th_lo, th_hi)
        idx == split_where(bits)
    IN  Len(idx)

bit_count(raw_data, chs, t0, t1) ==
    LET stream_data == get_stream_data_in_range(raw_data.analog, chs, t0, t1)
        order == Enumerate(chs)
    IN  [k \in 1..Len(order) |->
            IF order[k] \in DOMAIN stream_data
            THEN bit_count_channel(stream_data[order[k]])
            ELSE 0]

-----------------------------------------------------------------------------
(* plot_hdf5_stats.main: the state it keeps *)

EmptyMap == [k \in {} |-> <<>>]

\* stats_data[k].append(v) on a defaultdict(list)
AppendTo(m, k, v) ==
    [x \in (DOMAIN m) \cup {k} |->
        IF x = k THEN (IF k \in DOMAIN m THEN Append(m[k], v) ELSE <<v>>) ELSE m[x]]

\* os.path.basename of a path <<directory, file name>>
basename(path) == path[2]

\* Lines 139-149: inclusion first (default: the whole device), then exclusion.
channel_selection(a) ==
    LET included == IF a.channels # <<>> THEN ToSet(a.channels)
                    ELSE 0..(NDeviceChannels - 1)
    IN  IF a.exclude_channels # <<>> THEN included \ ToSet(a.exclude_channels)
        ELSE included

\* Lines 159-169: what one iteration of the loop appends for recording raw.
collect_twice(a, chs, sd, raw) ==
    LET s0 == IF "sample_count" \in ToSet(a.stats)
              THEN AppendTo(sd, "sample_count", sample_count(raw)) ELSE sd
        s1 == IF a.normalize
              THEN AppendTo(s0, "sample_count", sample_count(raw)) ELSE s0
        s2 == IF "spike_count" \in ToSet(a.stats)
              THEN AppendTo(s1, "spike_count", spike_count(raw, chs, a.t0, a.t1)) ELSE s1
    IN  IF "bit_count" \in ToSet(a.stats)
        THEN AppendTo(s2, "bit_count", bit_count(raw, chs, a.t0, a.t1)) ELSE s2

collect(a, chs, sd, raw) ==
    LET s1 == IF "sample_count" \in ToSet(a.stats) \/ a.normalize
              THEN AppendTo(sd, "sample_count", sample_count(raw)) ELSE sd
        s2 == IF "spike_count" \in ToSet(a.stats)
              THEN AppendTo(s1, "spike_count", spike_count(raw, chs, a.t0, a.t1)) ELSE s1
    IN  IF "bit_count" \in ToSet(a.stats)
        THEN AppendTo(s2, "bit_count", bit_count(raw, chs, a.t0, a.t1)) ELSE s2

\* The calls one iteration makes, in order, for file number n.
calls(a, n) ==
    <<<<"load", n>>>>
    \o (IF "sample_count" \in ToSet(a.stats) \/ a.normalize
        THEN <<<<"sample_count", n>>>> ELSE <<>>)
    \o (IF "spike_count" \in ToSet(a.stats) THEN <<<<"spike_count", n>>>> ELSE <<>>)
    \o (IF "bit_count" \in ToSet(a.stats) THEN <<<<"bit_count", n>>>> ELSE <<>>)

\* Lines 174-175: every collected list becomes an array.
to_arrays(sd, chs) ==
    [k \in DOMAIN sd |->
        IF k = "sample_count" THEN Array1(sd[k]) ELSE Array2(sd[k], Cardinality(chs))]

\* Lines 179-184: the statistics are normalized in selection order, from
\* position n on; a name selected twice is divided twice.
RECURSIVE normalize_from(_, _, _)
normalize_from(sd, stats, n) ==
    IF n > Len(stats) THEN sd
    ELSE IF stats[n] \notin {"spike_count", "bit_count"}
         THEN normalize_from(sd, stats, n + 1)
    ELSE normalize_from(
            [sd EXCEPT ![stats[n]] = normalize_stats(sd[stats[n]], sd["sample_count"])],
            stats, n + 1)

normalized_labels(a) ==
    [n \in 1..Len(a.stats) |->
        [name |-> a.stats[n],
         normalized |-> a.normalize /\ a.stats[n] \in {"spike_count", "bit_count"}]]

\* np.sum(y, axis=1) of row f, columns lo..hi
RECURSIVE RowSum(_, _, _, _)
RowSum(a, f, lo, hi) ==
    IF lo > hi THEN Fin(0)
    ELSE IF lo = hi THEN At(a, f, lo)
    ELSE LET mid == (lo + hi) \div 2
         IN  AddVal(RowSum(a, f, lo, mid), RowSum(a, f, mid + 1, hi))

\* Lines 112-117: the y values plot_stats_total draws for one statistic.
plot_line(y) ==
    IF Len(y.shape) = 2
    THEN [f \in 1..y.shape[1] |-> RowSum(y, f, 1, y.shape[2])]
    ELSE [f \in 1..y.shape[1] |-> Fin(y.data[f])]

-----------------------------------------------------------------------------
(* The recording files *)

Spike(n, at, v) == [k \in 1..n |-> IF k = at THEN v ELSE 0]

R1 == Recording(3, 30,
        [ch \in 0..2 |-> IF ch = 0 THEN Spike(30, 0, 0)
                         ELSE IF ch = 1 THEN Spike(30, 10, 7) ELSE Spike(30, 30, -2)],
        [ch \in 0..2 |-> IF ch = 0 THEN <<1, 2, 3>> ELSE IF ch = 1 THEN <<>> ELSE <<5>>])

\* A recording with no samples, and no timestamp entry for channel 1.
R2 == Recording(3, 0, [ch \in 0..2 |-> <<>>],
        [ch \in {0, 2} |-> IF ch = 0 THEN <<2>> ELSE <<0, 1, 4, 5>>])

Paths == {<<"a", "r1.h5">>, <<"b", "r1.h5">>}

Disk == [p \in Paths |-> IF p = <<"a", "r1.h5">> THEN [holds |-> "R1"]
                                                  ELSE [holds |-> "R2"]]

(* The end-to-end scenario: two recordings of 2 channels and WaveSamples   *)
(* samples; channel 0 is constant, channel 1 a two-level square wave with  *)
(* 10 level changes: a first run of `lead` samples at level A, then runs   *)
(* of alternately `wb` samples at level B and `wa` samples at level A      *)
(* (five B runs, four A runs), then level A to the end.                    *)

WaveSamples == 100

SquareWave(w) ==
    [k \in 1..WaveSamples |->
        LET o == k - w.lead - 1
        IN  IF o >= 0 /\ o < 5 * w.wb + 4 * w.wa /\ o % (w.wb + w.wa) < w.wb
            THEN w.B ELSE w.A]

WaveRecording(w) ==
    Recording(2, WaveSamples,
        [ch \in 0..1 |-> IF ch = 0 THEN [k \in 1..WaveSamples |-> w.c0]
                         ELSE SquareWave(w)],
        [ch \in 0..1 |-> <<>>])

\* McsPy.McsData.RawData(filename): the recording a file holds.
RawData(file) ==
    IF file.holds = "wave" THEN WaveRecording(file)
    ELSE IF file.holds = "R1" THEN R1 ELSE R2

-----------------------------------------------------------------------------
(* plot_hdf5_stats.main: its steps *)

\* Lines 130-149: the selection is checked, then the channel set is computed.
ParseArgs ==
    /\ pc = "start"
    /\ IF ToSet(args.stats) \ stats_available # {}
       THEN /\ pc' = "fault"
            /\ fault' = "AssertionError"
            /\ UNCHANGED channels
       ELSE /\ pc' = "loop"
            /\ channels' = channel_selection(args)
            /\ UNCHANGED fault
    /\ UNCHANGED <<fs, args, i, stats_data, labels, log, plot, fin, fout>>

\* Lines 151-169: one file is loaded and its statistics are appended.
ProcessFile ==
    /\ pc = "loop"
    /\ i < Len(args.files)
    /\ LET raw_data == RawData(fs[args.files[i + 1]])
       IN  stats_data' = collect(args, channels, stats_data, raw_data)
    /\ log' = log \o calls(args, i + 1)
    /\ i' = i + 1
    /\ UNCHANGED <<fs, args, pc, channels, labels, fault, plot, fin, fout>>

\* Lines 174-184: arrays, labels and the optional normalization.
Finish ==
    /\ pc = "loop"
    /\ i = Len(args.files)
    /\ LET arrays == to_arrays(stats_data, channels)
           done == IF args.normalize THEN normalize_from(arrays, args.stats, 1)
                   ELSE arrays
       IN  IF \E k \in DOMAIN done : IsError(done[k])
           THEN /\ pc' = "fault"
                /\ fault' = "ValueError"
                /\ UNCHANGED <<stats_data, labels>>
           ELSE /\ pc' = "render"
                /\ stats_data' = done
                /\ labels' = IF args.normalize THEN normalized_labels(args)
                             ELSE [n \in 1..Len(args.stats) |->
                                      [name |-> args.stats[n], normalized |-> FALSE]]
                /\ UNCHANGED fault
    /\ UNCHANGED <<fs, args, channels, i, log, plot, fin, fout>>

\* Lines 186-195 and plot_stats_total: the mode is looked at only now.  A
\* selected name with nothing collected reads as an empty list, which has
\* no shape.
Render ==
    /\ pc = "render"
    /\ IF args.mode # "total"
       THEN /\ pc' = "fault"
            /\ fault' = "NotImplementedError"
            /\ UNCHANGED plot
       ELSE IF \E n \in 1..Len(args.stats) : args.stats[n] \notin DOMAIN stats_data
       THEN /\ pc' = "fault"
            /\ fault' = "AttributeError"
            /\ UNCHANGED plot
       ELSE /\ pc' = "done"
            /\ plot' = <<[xticks |-> [n \in 1..Len(args.files) |-> basename(args.files[n])],
                          lines  |-> [n \in 1..Len(args.stats) |->
                                         plot_line(stats_data[args.stats[n]])],
                          labels |-> labels]>>
            /\ UNCHANGED fault
    /\ UNCHANGED <<fs, args, channels, i, stats_data, labels, log, fin, fout>>

Next == ParseArgs \/ ProcessFile \/ Finish \/ Render

-----------------------------------------------------------------------------
(* The runs of entry point B that are explored *)

StatNames == {"sample_count", "spike_count", "bit_count", "mean", "bogus"}

\* The channel and time-range flags together: -ch, -ech, -t0, -t1.  No
\* flags at all (every device channel, the whole recording), channels
\* 0,1,2 of the whole recording, a repeated channel with an exclusion over
\* [1, 3), and a selection that the exclusion empties.
Filters ==
    {<< <<>>, <<>>, Fin(0), inf >>,
     << <<0, 1, 2>>, <<>>, Fin(0), inf >>,
     << <<2, 0, 2>>, <<0>>, Fin(1), Fin(3) >>,
     << <<0>>, <<0>>, Fin(1), Fin(3) >>}

NoFn == [op |-> "none"]

\* The state main starts in: nothing collected, nothing loaded.
Fresh ==
    /\ pc = "start"
    /\ channels = {}
    /\ i = 0
    /\ stats_data = EmptyMap
    /\ labels = <<>>
    /\ log = <<>>
    /\ fault = "none"
    /\ plot = <<>>
    /\ fin = NoFn
    /\ fout = <<>>

\* One or more files, a non-empty selection (''.split(',') is ['']), the
\* filters, -n and -m.
Init ==
    /\ fs = Disk
    /\ \E ns \in 1..MaxStats, nf \in 1..MaxFiles :
         \E st \in [1..ns -> StatNames], fl \in [1..nf -> Paths], f \in Filters,
            nz \in BOOLEAN, md \in {"total", "per-channel"} :
            args = [stats |-> st, t0 |-> f[3], t1 |-> f[4], channels |-> f[1],
                    exclude_channels |-> f[2], files |-> fl, normalize |-> nz,
                    mode |-> md]
    /\ Fresh

Spec == Init /\ [][Next]_vars

-----------------------------------------------------------------------------
(* The runs of the end-to-end scenario *)

Waves ==
    {[holds |-> "wave", lead |-> l, wb |-> b, wa |-> a, A |-> lv[1], B |-> lv[2],
      c0 |-> c] :
        l \in {1, 10}, b \in {1, 9}, a \in {1, 9},
        lv \in {<<0, 1>>, <<1, 0>>, <<-3, 3>>}, c \in {0, 2}}

WavePaths == <<<<"d", "w1.h5">>, <<"d", "w2.h5">>>>

WaveArgs ==
    [stats |-> <<"bit_count">>, t0 |-> Fin(0), t1 |-> inf, channels |-> <<0, 1>>,
     exclude_channels |-> <<>>, files |-> WavePaths, normalize |-> FALSE,
     mode |-> "total"]

InitE2E ==
    /\ \E w1 \in Waves, w2 \in Waves :
          fs = [p \in ToSet(WavePaths) |-> IF p = WavePaths[1] THEN w1 ELSE w2]
    /\ args = WaveArgs
    /\ Fresh

SpecE2E == InitE2E /\ [][Next]_vars

-----------------------------------------------------------------------------
(* The functions applied on their own *)

Idle ==
    /\ fs = EmptyMap
    /\ args = [stats |-> <<>>, t0 |-> Fin(0), t1 |-> inf, channels |-> <<>>,
               exclude_channels |-> <<>>, files |-> <<>>, normalize |-> FALSE,
               mode |-> "total"]
    /\ pc = "idle"
    /\ channels = {}
    /\ i = 0
    /\ stats_data = EmptyMap
    /\ labels = <<>>
    /\ log = <<>>
    /\ fault = "none"
    /\ plot = <<>>

Rows(a) == [f \in 1..a.shape[1] |-> [c \in 1..a.shape[2] |-> At(a, f, c)]]

\* normalize_stats on tables whose row f is first, first + step, ... and
\* divisors with one entry per row.
NormFirst == {0, 5, 10}
NormStep == {0, 10}
NormDivisors == {0, 5, 10}

NormInput ==
    \E F \in 1..MaxFiles, C \in 0..MaxNormCh :
       \E fr \in [1..F -> NormFirst \X NormStep], dv \in [1..F -> NormDivisors] :
          fin = [op |-> "normalize",
                 rows |-> [f \in 1..F |-> [c \in 1..C |-> fr[f][1] + fr[f][2] * (c - 1)]],
                 C |-> C,
                 divisor |-> dv]

ApplyNormalize ==
    /\ fin.op = "normalize"
    /\ fout = <<>>
    /\ fout' = <<normalize_stats(Array2(fin.rows, fin.C), Array1(fin.divisor))>>
    /\ UNCHANGED <<mainvars, fin>>

InitNorm == Idle /\ NormInput /\ fout = <<>>

\* normalize_stats on its own and inside the runs of main.
SpecNorm == (InitNorm \/ Init) /\ [][ApplyNormalize \/ Next]_vars

\* digitize, split_where and the per-channel count of bit_count
SampleValues == 0..3
States == {"LOW", "MID", "HIGH"}

\* Values and two threshold pairs, the second at least as wide as the first.
DigitizeInput ==
    \E n \in 0..MaxSeqLen :
       \E v \in [1..n -> SampleValues], t \in [1..4 -> SampleValues] :
          /\ t[1] <= t[2] /\ t[2] <= t[3] /\ t[3] <= t[4]
          /\ fin = [op |-> "digitize", values |-> v, low |-> t[2], high |-> t[3],
                    low2 |-> t[1], high2 |-> t[4]]

SplitInput ==
    \E n \in 0..MaxSeqLen : \E s \in [1..n -> States] :
       fin = [op |-> "split_where", states |-> s]

\* An all-zero slice of n samples with sample `at` perturbed by e.
PerturbedInput ==
    \E n \in 1..MaxSlice : \E at \in 1..n, e \in {-1, 1} :
       fin = [op |-> "bit_count", data |-> Spike(n, at, e), n |-> n, at |-> at]

ApplyDigitize ==
    /\ fin.op = "digitize"
    /\ fout = <<>>
    /\ fout' = <<[narrow |-> digitize(fin.values, IntThreshold(fin.low),
                                       IntThreshold(fin.high)),
                  wide   |-> digitize(fin.values, IntThreshold(fin.low2),
                                       IntThreshold(fin.high2))]>>
    /\ UNCHANGED <<mainvars, fin>>

ApplySplitWhere ==
    /\ fin.op = "split_where"
    /\ fout = <<>>
    /\ fout' = <<split_where(fin.states)>>
    /\ UNCHANGED <<mainvars, fin>>

ApplyBitCount ==
    /\ fin.op = "bit_count"
    /\ fout = <<>>
    /\ fout' = <<bit_count_channel(fin.data)>>
    /\ UNCHANGED <<mainvars, fin>>

InitBits ==
    /\ Idle
    /\ DigitizeInput \/ SplitInput \/ PerturbedInput
    /\ fout = <<>>

NextBits == ApplyDigitize \/ ApplySplitWhere \/ ApplyBitCount

SpecBits == InitBits /\ [][NextBits]_vars

\* spike_count on timestamp entities over channels 0..2: a channel has no
\* entry, or the events 1..b, or the events a..MaxT.
EventLists ==
    {[k \in 1..b |-> k] : b \in 0..MaxT}
    \cup {[k \in 1..(MaxT - a + 1) |-> a + k - 1] : a \in 2..MaxT}

SpikeInput ==
    \E present \in SUBSET (0..2), chs \in SUBSET (0..2) :
       \E te \in [present -> EventLists],
          r \in {<<Fin(0), inf>>, <<Fin(2), inf>>, <<Fin(0), Fin(3)>>, <<Fin(2), Fin(3)>>} :
          fin = [op |-> "spike_count", te |-> te, channels |-> chs,
                 t0 |-> r[1], t1 |-> r[2]]

ApplySpikeCount ==
    /\ fin.op = "spike_count"
    /\ fout = <<>>
    /\ fout' = <<spike_count(Recording(0, 0, EmptyMap, fin.te), fin.channels,
                              fin.t0, fin.t1)>>
    /\ UNCHANGED <<mainvars, fin>>

InitSpike == Idle /\ SpikeInput /\ fout = <<>>

SpecSpike == InitSpike /\ [][ApplySpikeCount]_vars

-----------------------------------------------------------------------------
(* Properties *)

Counted == {"sample_count", "spike_count", "bit_count"}

Selected(k) == k \in ToSet(args.stats)

\* The keys the loop fills: every selected counted statistic, and
\* sample_count whenever normalization is on.
Collected ==
    {k \in Counted : Selected(k) \/ (k = "sample_count" /\ args.normalize)}

\* The statistic k of the n-th file argument, computed from that file alone.
StatOfFile(k, n) ==
    LET raw == RawData(fs[args.files[n]])
    IN  IF k = "sample_count" THEN raw.analog.shape[2]
        ELSE IF k = "spike_count" THEN spike_count(raw, channels, args.t0, args.t1)
        ELSE bit_count(raw, channels, args.t0, args.t1)

\* The 1-based positions p >= 2 of s with s[p] # s[p-1].
Boundaries(s) == {p \in 2..Len(s) : s[p] # s[p - 1]}

\* C1: with mode = 'per-channel' the fault is raised before the first file
\* is loaded and before any statistic function is called: no load and no
\* statistic call is ever logged in such a run.
C1_ModeFaultBeforeFiles ==
    args.mode = "per-channel" /\ fault # "none" => log = <<>>

\* C2: a selection with a name outside {sample_count, spike_count,
\* bit_count} is rejected before any file is loaded and never reaches
\* per-file processing or plotting.
C2_SelectionRejectedEarly ==
    ~(ToSet(args.stats) \subseteq Counted)
        => log = <<>> /\ plot = <<>> /\ pc \notin {"render", "done"}

\* C3 (as stated): in the end-to-end scenario bit_count yields [0, 10] for
\* each file and the aggregated table is [[0, 10], [0, 10]].
C3_TableZeroTen ==
    pc \in {"render", "done"}
        => Rows(stats_data["bit_count"])
             = <<<<Fin(0), Fin(10)>>, <<Fin(0), Fin(10)>>>>

\* C3 (amended): in the end-to-end scenario no sample of the square wave
\* lies beyond mean -/+ 5*std, so bit_count yields [0, 0] for each file and
\* the aggregated, non-normalized table is [[0, 0], [0, 0]].
C3_TableZeroZero ==
    /\ pc = "loop" => \A n \in 1..i : stats_data["bit_count"][n] = <<0, 0>>
    /\ pc \in {"render", "done"}
        => /\ stats_data["bit_count"].shape = <<2, 2>>
           /\ Rows(stats_data["bit_count"])
                = <<<<Fin(0), Fin(0)>>, <<Fin(0), Fin(0)>>>>

C3_Witness ==
    /\ pc = "done"
    /\ \A n \in 1..2 :
          LET raw == RawData(fs[args.files[n]])
          IN  /\ raw.analog.shape = <<2, 100>>
              /\ Cardinality(Boundaries(raw.analog.row[0])) = 0
              /\ Cardinality(Boundaries(raw.analog.row[1])) = 10
              /\ Cardinality(ToSet(raw.analog.row[1])) = 2
    /\ fault = "none"
    /\ Len(log) = 4
    /\ Rows(stats_data["bit_count"]) = <<<<Fin(0), Fin(0)>>, <<Fin(0), Fin(0)>>>>

IsC4Input ==
    /\ fin.op = "normalize"
    /\ fin.rows = <<<<10, 20>>, <<5, 5>>>>
    /\ fin.divisor = <<10, 5>>

\* C4 (as stated): normalize of [[10,20],[5,5]] by [10,5] is [[1,4],[1,1]].
C4_OneFour ==
    IsC4Input /\ fout # <<>>
        => Rows(fout[1]) = <<<<Fin(1), Fin(4)>>, <<Fin(1), Fin(1)>>>>

\* C4 (amended): normalize of [[10,20],[5,5]] by [10,5] is [[1,2],[1,1]]:
\* every entry of row f is divided by divisor f.
C4_OneTwo ==
    IsC4Input /\ fout # <<>>
        => Rows(fout[1]) = <<<<Fin(1), Fin(2)>>, <<Fin(1), Fin(1)>>>>

C4_Witness == IsC4Input /\ fout # <<>> /\ ~IsError(fout[1])

\* C5: normalize_stats raises nothing and divides per file: the result has
\* the table's shape, entry (f, c) times divisor f is table entry (f, c)
\* when divisor f is not 0, and is non-finite when it is 0; a run of main
\* with a zero sample count is not ended by the normalization and its
\* normalized rows for that file are non-finite.
C5_NormalizePerFile ==
    /\ fin.op = "normalize" /\ fout # <<>>
        => LET r == fout[1]
               F == Len(fin.rows)
           IN  /\ ~IsError(r)
               /\ r.shape = <<F, fin.C>>
               /\ Len(r.data) = F * fin.C
               /\ \A f \in 1..F : \A c \in 1..fin.C :
                     LET q == r.data[(f - 1) * fin.C + c]
                     IN  IF fin.divisor[f] = 0
                         THEN q.den = 0
                         ELSE /\ q.den > 0
                              /\ q.num * fin.divisor[f] = fin.rows[f][c] * q.den
    /\ fault # "ValueError"
    /\ pc \in {"render", "done"} /\ args.normalize
        => \A k \in {"spike_count", "bit_count"} : Selected(k)
             => \A f \in 1..Len(args.files) :
                   RawData(fs[args.files[f]]).analog.shape[2] = 0
                     => \A c \in 1..stats_data[k].shape[2] :
                           ~IsFinite(At(stats_data[k], f, c))

C5_Witness ==
    /\ fin.op = "normalize"
    /\ fout # <<>>
    /\ fin.C = 2
    /\ Len(fin.rows) = 2
    /\ fin.divisor[1] = 0
    /\ fin.divisor[2] = 5
    /\ fin.rows[2] = <<10, 20>>

\* A run with a zero sample count that reaches the plot.
C5_RunWitness ==
    /\ pc = "done"
    /\ args.normalize
    /\ Selected("spike_count")
    /\ \E f \in 1..Len(args.files) : RawData(fs[args.files[f]]).analog.shape[2] = 0

C7_RowPerFile ==
    /\ pc = "loop"
        => /\ DOMAIN stats_data = (IF i = 0 THEN {} ELSE Collected)
           /\ \A k \in DOMAIN stats_data :
                 /\ Len(stats_data[k]) = i
                 /\ \A n \in 1..i :
                       /\ stats_data[k][n] = StatOfFile(k, n)
                       /\ k # "sample_count"
                            => Len(stats_data[k][n]) = Cardinality(channels)
           /\ Len(log) = i * (1 + Cardinality(Collected))
    /\ pc \in {"render", "done"}
        => /\ DOMAIN stats_data = Collected
           /\ \A k \in Collected :
                 /\ stats_data[k].shape[1] = Len(args.files)
                 /\ k # "sample_count" => stats_data[k].shape[2] = Cardinality(channels)
                 /\ \A n \in 1..Len(args.files) :
                       LET v == StatOfFile(k, n)
                           row == Rows(stats_data[k])[n]
                       IN  IF k = "sample_count" THEN stats_data[k].data[n] = v
                           ELSE IF ~args.normalize
                           THEN row = [c \in 1..Len(v) |-> Fin(v[c])]
                           ELSE Cardinality({m \in 1..Len(args.stats) :
                                                args.stats[m] = k}) = 1
                                => LET d == StatOfFile("sample_count", n)
                                   IN  row = [c \in 1..Len(v) |->
                                                 TrueDivide(Fin(v[c]), Fin(d))]
    /\ pc = "done"
        => /\ Len(plot[1].xticks) = Len(args.files)
           /\ \A n \in 1..Len(args.files) : plot[1].xticks[n] = args.files[n][2]
           /\ \A m \in 1..Len(args.stats) :
                 Len(plot[1].lines[m]) = Len(args.files)

C7_Witness ==
    /\ pc = "done"
    /\ args.normalize
    /\ args.stats = <<"sample_count", "spike_count">>
    /\ Len(args.files) = 2
    /\ args.files[1] # args.files[2]
    /\ stats_data["sample_count"].data = <<0, 30>>

\* C8 (as stated): an all-zero slice with one perturbed sample has 0
\* transitions, for every slice length and every position of the sample.
C8_PerturbedZero ==
    fin.op = "bit_count" /\ fout # <<>> => fout[1] = 0

\* C8 (amended): an all-zero slice of n samples with one perturbed sample
\* has 0 transitions when n - 1 < 25; when n - 1 > 25 the perturbed sample
\* lies beyond mean -/+ 5*std and the count is 1 for a perturbed first or
\* last sample and 2 otherwise.
C8_PerturbedShort ==
    fin.op = "bit_count" /\ fout # <<>>
        => /\ fin.n - 1 < K * K => fout[1] = 0
           /\ fin.n - 1 > K * K
                => fout[1] = (IF fin.at \in {1, fin.n} THEN 1 ELSE 2)

C8_Witness ==
    /\ fin.op = "bit_count"
    /\ fin.n = 25
    /\ fin.at = 7
    /\ fout = <<0>>

C8_LongWitness ==
    /\ fin.op = "bit_count"
    /\ fin.n = 27
    /\ fin.at = 7
    /\ fout = <<2>>

NonMid(bits) == Cardinality({k \in 1..Len(bits) : bits[k] # "MID"})

\* C9: digitize keeps the length, maps a value to LOW iff value < low, to
\* HIGH iff value > high and to MID otherwise, and widening the thresholds
\* (low2 <= low <= high <= high2) never increases the number of non-MID
\* states.
C9_DigitizeMonotonic ==
    fin.op = "digitize" /\ fout # <<>>
        => LET r == fout[1]
           IN  /\ Len(r.narrow) = Len(fin.values)
               /\ Len(r.wide) = Len(fin.values)
               /\ \A k \in 1..Len(fin.values) :
                     /\ r.narrow[k] = "LOW" <=> fin.values[k] < fin.low
                     /\ r.narrow[k] = "HIGH" <=> fin.values[k] > fin.high
                     /\ r.narrow[k] \in States
               /\ NonMid(r.wide) <= NonMid(r.narrow)

C9_Witness ==
    /\ fin.op = "digitize"
    /\ fout # <<>>
    /\ NonMid(fout[1].narrow) = 3
    /\ NonMid(fout[1].wide) = 1
    /\ fin.low2 < fin.low /\ fin.high < fin.high2

\* C10: split_where(s) is exactly the ascending indices i in 1..len(s)-1
\* with s[i] # s[i-1]: none when len(s) <= 1 or s is constant, len(s) - 1
\* when no two adjacent elements are equal; and the count bit_count records
\* for a slice is the number of run boundaries of its digitized states.
C10_SplitWhere ==
    /\ fin.op = "split_where" /\ fout # <<>>
        => LET s == fin.states
               r == fout[1]
           IN  /\ ToSet(r) = {p - 1 : p \in Boundaries(s)}
               /\ \A a \in 1..Len(r) : \A b \in 1..Len(r) : a < b => r[a] < r[b]
               /\ Len(s) <= 1 => r = <<>>
               /\ (\A p \in 1..Len(s) : s[p] = s[1]) => Len(r) = 0
               /\ (Len(s) >= 1 /\ \A p \in 2..Len(s) : s[p] # s[p - 1])
                    => Len(r) = Len(s) - 1
    /\ fin.op = "bit_count" /\ fout # <<>>
        => LET sum == SumSeq(fin.data)
               dev == Len(fin.data) * SumSq(fin.data) - sum * sum
               bits == digitize(fin.data, Threshold(sum, -K, dev, Len(fin.data)),
                                Threshold(sum, K, dev, Len(fin.data)))
           IN  fout[1] = Cardinality(Boundaries(bits))

C10_Witness ==
    /\ fin.op = "split_where"
    /\ fin.states = <<"MID", "HIGH", "HIGH", "LOW">>
    /\ fout = <<<<1, 3>>>>

=============================================================================
